---- MODULE Spec2Model ----
(***************************************************************************)
(* Model of .scripts/claude_code_run.py: the streaming escape-sequence     *)
(* filter (_AnsiStripper) and the PTY relay session (run_with_pty).        *)
(*                                                                         *)
(* Two groups of specifications share this module:                         *)
(*   SpecFilter      - a fresh _AnsiStripper fed a byte stream in chunks   *)
(*   Spec / FairSpec - one run_with_pty session with its child processes,  *)
(*                     the pseudo-terminal, the caller's terminal and the  *)
(*                     clock                                               *)
(***************************************************************************)
EXTENDS Integers, Sequences, FiniteSets, TLC

\* ------------------------------------------------------------------------
\* Bytes
\* ------------------------------------------------------------------------
ESC == 27
BEL == 7
LBRACKET == 91
RBRACKET == 93
LETTER_P == 80
BACKSLASH == 92

\* The bytes the filter distinguishes, one or more of every class:
\* ESC, the three introducers, the string terminators, a CSI parameter byte
\* below 0x40 ("1", 49) and a CSI final byte in 0x40-0x7E ("m", 109).
FilterBytes == {ESC, BEL, LBRACKET, RBRACKET, LETTER_P, BACKSLASH, 49, 109}

\* Longest byte stream fed to the filter under SpecFilter.
MaxLen == 4

RECURSIVE SeqsUpTo(_, _)
SeqsUpTo(S, n) ==
    IF n = 0 THEN {<<>>}
    ELSE LET shorter == SeqsUpTo(S, n - 1)
         IN  shorter \cup {Append(s, b) : s \in {t \in shorter : Len(t) = n - 1}, b \in S}

\* ------------------------------------------------------------------------
\* _AnsiStripper
\* ------------------------------------------------------------------------
FilterStates == {"text", "esc", "csi", "osc", "dcs"}

\* _AnsiStripper.__init__
NewStripper == [state |-> "text", osc_esc |-> FALSE, dcs_esc |-> FALSE]

\* A filter that emits the final byte of a CSI sequence.
FeedByteEmitsFinal(f, b) ==
    IF f.state = "text"
    THEN IF b = ESC
         THEN [f |-> [f EXCEPT !.state = "esc"], out |-> <<>>]
         ELSE [f |-> f, out |-> <<b>>]
    ELSE IF f.state = "esc"
    THEN IF b = LBRACKET
         THEN [f |-> [f EXCEPT !.state = "csi"], out |-> <<>>]
         ELSE IF b = RBRACKET
         THEN [f |-> [f EXCEPT !.state = "osc", !.osc_esc = FALSE], out |-> <<>>]
         ELSE IF b = LETTER_P
         THEN [f |-> [f EXCEPT !.state = "dcs", !.dcs_esc = FALSE], out |-> <<>>]
         ELSE [f |-> [f EXCEPT !.state = "text"], out |-> <<>>]
    ELSE IF f.state = "csi"
    THEN IF b >= 64 /\ b <= 126
         THEN [f |-> [f EXCEPT !.state = "text"], out |-> <<b>>]
         ELSE [f |-> f, out |-> <<>>]
    ELSE IF f.state = "osc"
    THEN IF f.osc_esc
         THEN [f |-> [f EXCEPT !.state = IF b = BACKSLASH THEN "text" ELSE "osc",
                               !.osc_esc = FALSE],
               out |-> <<>>]
         ELSE IF b = BEL
         THEN [f |-> [f EXCEPT !.state = "text"], out |-> <<>>]
         ELSE IF b = ESC
         THEN [f |-> [f EXCEPT !.osc_esc = TRUE], out |-> <<>>]
         ELSE [f |-> f, out |-> <<>>]
    ELSE \* "dcs"
         IF f.dcs_esc
         THEN [f |-> [f EXCEPT !.state = IF b = BACKSLASH THEN "text" ELSE "dcs",
                               !.dcs_esc = FALSE],
               out |-> <<>>]
         ELSE IF b = ESC
         THEN [f |-> [f EXCEPT !.dcs_esc = TRUE], out |-> <<>>]
         ELSE [f |-> f, out |-> <<>>]

\* A filter that also swallows BEL in the text state.
FeedByteDropsBel(f, b) ==
    IF f.state = "text"
    THEN IF b = ESC
         THEN [f |-> [f EXCEPT !.state = "esc"], out |-> <<>>]
         ELSE IF b = BEL
         THEN [f |-> f, out |-> <<>>]
         ELSE [f |-> f, out |-> <<b>>]
    ELSE IF f.state = "esc"
    THEN IF b = LBRACKET
         THEN [f |-> [f EXCEPT !.state = "csi"], out |-> <<>>]
         ELSE IF b = RBRACKET
         THEN [f |-> [f EXCEPT !.state = "osc", !.osc_esc = FALSE], out |-> <<>>]
         ELSE IF b = LETTER_P
         THEN [f |-> [f EXCEPT !.state = "dcs", !.dcs_esc = FALSE], out |-> <<>>]
         ELSE [f |-> [f EXCEPT !.state = "text"], out |-> <<>>]
    ELSE IF f.state = "csi"
    THEN IF b >= 64 /\ b <= 126
         THEN [f |-> [f EXCEPT !.state = "text"], out |-> <<>>]
         ELSE [f |-> f, out |-> <<>>]
    ELSE IF f.state = "osc"
    THEN IF f.osc_esc
         THEN [f |-> [f EXCEPT !.state = IF b = BACKSLASH THEN "text" ELSE "osc",
                               !.osc_esc = FALSE],
               out |-> <<>>]
         ELSE IF b = BEL
         THEN [f |-> [f EXCEPT !.state = "text"], out |-> <<>>]
         ELSE IF b = ESC
         THEN [f |-> [f EXCEPT !.osc_esc = TRUE], out |-> <<>>]
         ELSE [f |-> f, out |-> <<>>]
    ELSE \* "dcs"
         IF f.dcs_esc
         THEN [f |-> [f EXCEPT !.state = IF b = BACKSLASH THEN "text" ELSE "dcs",
                               !.dcs_esc = FALSE],
               out |-> <<>>]
         ELSE IF b = ESC
         THEN [f |-> [f EXCEPT !.dcs_esc = TRUE], out |-> <<>>]
         ELSE [f |-> f, out |-> <<>>]

\* One iteration of the while loop of feed: the filter f consumes byte b.
\* Result: the filter afterwards and the bytes appended to out.
FeedByte(f, b) ==
    IF f.state = "text"
    THEN IF b = ESC
         THEN [f |-> [f EXCEPT !.state = "esc"], out |-> <<>>]
         ELSE [f |-> f, out |-> <<b>>]
    ELSE IF f.state = "esc"
    THEN IF b = LBRACKET
         THEN [f |-> [f EXCEPT !.state = "csi"], out |-> <<>>]
         ELSE IF b = RBRACKET
         THEN [f |-> [f EXCEPT !.state = "osc", !.osc_esc = FALSE], out |-> <<>>]
         ELSE IF b = LETTER_P
         THEN [f |-> [f EXCEPT !.state = "dcs", !.dcs_esc = FALSE], out |-> <<>>]
         ELSE [f |-> [f EXCEPT !.state = "text"], out |-> <<>>]
    ELSE IF f.state = "csi"
    THEN IF b >= 64 /\ b <= 126
         THEN [f |-> [f EXCEPT !.state = "text"], out |-> <<>>]
         ELSE [f |-> f, out |-> <<>>]
    ELSE IF f.state = "osc"
    THEN IF f.osc_esc
         THEN [f |-> [f EXCEPT !.state = IF b = BACKSLASH THEN "text" ELSE "osc",
                               !.osc_esc = FALSE],
               out |-> <<>>]
         ELSE IF b = BEL
         THEN [f |-> [f EXCEPT !.state = "text"], out |-> <<>>]
         ELSE IF b = ESC
         THEN [f |-> [f EXCEPT !.osc_esc = TRUE], out |-> <<>>]
         ELSE [f |-> f, out |-> <<>>]
    ELSE \* "dcs"
         IF f.dcs_esc
         THEN [f |-> [f EXCEPT !.state = IF b = BACKSLASH THEN "text" ELSE "dcs",
                               !.dcs_esc = FALSE],
               out |-> <<>>]
         ELSE IF b = ESC
         THEN [f |-> [f EXCEPT !.dcs_esc = TRUE], out |-> <<>>]
         ELSE [f |-> f, out |-> <<>>]

\* A loop that puts each emitted byte in front of out instead of behind it.
RECURSIVE FeedFromPrepends(_, _, _, _)
FeedFromPrepends(f, data, i, out) ==
    IF i > Len(data)
    THEN [f |-> f, out |-> out]
    ELSE LET r == FeedByte(f, data[i])
         IN  FeedFromPrepends(r.f, data, i + 1, r.out \o out)

\* The while loop of feed from index i on, out being the bytes emitted so far.
RECURSIVE FeedFrom(_, _, _, _)
FeedFrom(f, data, i, out) ==
    IF i > Len(data)
    THEN [f |-> f, out |-> out]
    ELSE LET r == FeedByte(f, data[i])
         IN  FeedFrom(r.f, data, i + 1, out \o r.out)

\* A feed that forgets a pending ESC at the start of every call.
feedForgetsEsc(f, data) ==
    FeedFrom(IF f.state = "esc" THEN [f EXCEPT !.state = "text"] ELSE f, data, 1, <<>>)

\* _AnsiStripper.feed(data): the filter afterwards and the returned bytes.
feed(f, data) == FeedFrom(f, data, 1, <<>>)

\* ------------------------------------------------------------------------
\* Sequence helpers used by the properties
\* ------------------------------------------------------------------------
RECURSIVE IsSubseq(_, _)
IsSubseq(s, t) ==
    IF s = <<>> THEN TRUE
    ELSE IF t = <<>> THEN FALSE
    ELSE IF Head(s) = Head(t) THEN IsSubseq(Tail(s), Tail(t))
    ELSE IsSubseq(s, Tail(t))

Contains(t, s) ==
    \E i \in 0..(Len(t) - Len(s)) : SubSeq(t, i + 1, i + Len(s)) = s

HasByte(s, b) == \E i \in 1..Len(s) : s[i] = b

\* ------------------------------------------------------------------------
\* State
\* ------------------------------------------------------------------------
VARIABLES
    \* -- a filter fed a stream in chunks (SpecFilter) --
    stream,         \* the byte stream S
    pos,            \* number of bytes of S fed so far
    flt,            \* the _AnsiStripper instance: _state, _osc_esc, _dcs_esc
    acc,            \* concatenation of the values returned by the feed calls
    chunk,          \* argument of the last feed call
    ret,            \* value returned by the last feed call
    pre,            \* the instance as it was before the last feed call
    \* -- one run_with_pty session (Spec, FairSpec) --
    pc,             \* position of the relay inside run_with_pty
    isatty,         \* sys.stdin.isatty()
    timeout_s,      \* None or the timeout, in clock ticks
    strip_ansi,     \* argument strip_ansi
    program,        \* what the spawned command does
    child,          \* the Popen child p: "none", "running", "zombie", "reaped"
    child_status,   \* status the child ended with (exit code, or -signal)
    child_reading,  \* the child is blocked reading a line from its input
    to_write,       \* write calls the child has still to make
    desc,           \* a descendant in the child's process group: "none", "alive", "dead"
    master_open,    \* the relay holds master_fd open
    slave_open,     \* the relay holds slave_fd open
    stdin_fd,       \* local stdin_fd is not None
    raw_mode,       \* local raw_mode
    old_tty_attrs,  \* local old_tty_attrs
    term_attrs,     \* attributes of the caller's terminal
    stdin_buf,      \* bytes waiting on the caller's input
    pty_in,         \* bytes written to the controller, not yet read by the child
    pty_out,        \* bytes written by the child, not yet read from the controller
    stdout_buf,     \* bytes written to sys.stdout.buffer
    stripper,       \* local stripper (an _AnsiStripper), used when strip_ansi
    ready,          \* result of the last select
    now,            \* time.monotonic(), in ticks of one poll interval
    start,          \* local start
    outcome,        \* how the session ended: "none", "returned", "raised", "killed"
    rc,             \* value returned by run_with_pty
    timed_out,      \* the timeout branch of the loop was taken
    sent,           \* signals sent to the child's process group, in order
    written,        \* all bytes the child has written to the subordinate
    drain_err,      \* an OSError ended the final drain before its end of data
    winch           \* SIGWINCH handler of the session: "none", "armed" (set),
                    \* "ran" (has run), "stale" (has run on the closed controller)

fvars == <<stream, pos, flt, acc, chunk, ret, pre>>

svars == <<pc, isatty, timeout_s, strip_ansi, program, child, child_status,
           child_reading, to_write,
           desc, master_open, slave_open, stdin_fd, raw_mode, old_tty_attrs,
           term_attrs, stdin_buf, pty_in, pty_out, stdout_buf, stripper, ready,
           now, start, outcome, rc, timed_out, sent, written, drain_err, winch>>

vars == <<fvars, svars>>

\* Python's None, and a value that is not None: optional values are sequences
\* of length 0 or 1.
None == <<>>
Some(x) == <<x>>
Val(o) == o[1]

\* ------------------------------------------------------------------------
\* SpecFilter: a fresh filter fed the stream in consecutive chunks
\* ------------------------------------------------------------------------
FilterIdle ==
    /\ stream = <<>> /\ pos = 0 /\ flt = NewStripper /\ acc = <<>>
    /\ chunk = <<>> /\ ret = <<>> /\ pre = NewStripper

SessionIdle ==
    /\ pc = "off" /\ isatty = FALSE /\ timeout_s = None /\ strip_ansi = FALSE
    /\ program = None /\ child = "none" /\ child_status = None
    /\ child_reading = FALSE /\ to_write = <<>>
    /\ desc = "none" /\ master_open = FALSE /\ slave_open = FALSE
    /\ stdin_fd = FALSE /\ raw_mode = FALSE /\ old_tty_attrs = None
    /\ term_attrs = "cooked" /\ stdin_buf = <<>> /\ pty_in = <<>> /\ pty_out = <<>>
    /\ stdout_buf = <<>> /\ stripper = NewStripper /\ ready = {} /\ now = 0
    /\ start = 0 /\ outcome = "none" /\ rc = None /\ timed_out = FALSE
    /\ sent = <<>> /\ written = <<>> /\ drain_err = FALSE /\ winch = "none"

\* The spec's CSI example: ESC [ 3 1 m H E L L O ESC [ 0 m.
CsiExample ==
    <<ESC, LBRACKET, 51, 49, 109, 72, 69, 76, 76, 79, ESC, LBRACKET, 48, 109>>

\* The streams fed to the filter: every stream of at most MaxLen bytes, the
\* streams of less than MaxLen bytes after an OSC introducer and after a DCS
\* introducer, and the CSI example.
FilterStreams ==
    SeqsUpTo(FilterBytes, MaxLen)
    \cup {p \o b : p \in {<<ESC, RBRACKET>>, <<ESC, LETTER_P>>},
                   b \in SeqsUpTo(FilterBytes, MaxLen - 1)}
    \cup {CsiExample}

InitFilter ==
    /\ stream \in FilterStreams
    /\ pos = 0
    /\ flt = NewStripper
    /\ acc = <<>>
    /\ chunk = <<>>
    /\ ret = <<>>
    /\ pre = NewStripper
    /\ SessionIdle

\* One call flt.feed(c), c being the next k bytes of the stream (k may be 0).
FilterFeed ==
    \E k \in 0..(Len(stream) - pos) :
        LET c == SubSeq(stream, pos + 1, pos + k)
            r == feed(flt, c)
        IN  /\ pre' = flt
            /\ chunk' = c
            /\ ret' = r.out
            /\ flt' = r.f
            /\ acc' = acc \o r.out
            /\ pos' = pos + k
            /\ UNCHANGED <<stream, svars>>

NextFilter == FilterFeed

SpecFilter == InitFilter /\ [][NextFilter]_vars

\* ------------------------------------------------------------------------
\* run_with_pty: constants and scenario data
\* ------------------------------------------------------------------------

\* One clock tick is one poll interval: select(..., 0.1).
PollTicks == 1
\* p.wait(timeout=2): the grace period is 2 s, twenty poll intervals.
GraceTicks == 20
\* return 124
TimeoutCode == 124
SIGTERM == 15
SIGKILL == 9

\* Largest configured timeout, in ticks.
MaxTimeout == 1

Timeouts == {None} \cup {Some(t) : t \in 0..MaxTimeout}

\* "hello" and "echo: "
Hello == <<104, 101, 108, 108, 111>>
HelloLine == Hello \o <<10>>
EchoPrefix == <<101, 99, 104, 111, 58, 32>>

\* What the child writes, one element per write call: nothing; or a CSI
\* sequence cut by a write boundary and followed by a text byte.
Scripts == { <<>>, << <<ESC, LBRACKET>>, <<109, 104>> >> }

\* Exit codes a child that exits by itself ends with.
ExitCodes == {0, 124}

\* The target programs. "echo" reads one line, writes "echo: <line>" and exits
\* with 0. A "writer" makes its write calls and then exits with its status, or
\* (exits = FALSE) stays alive. ignores_term: SIGTERM does not end it.
\* forks: it has a descendant in its process group that holds the subordinate
\* endpoint open and is silent, and that obeys or ignores SIGTERM.
EchoProgram ==
    [kind |-> "echo", writes |-> <<>>, exits |-> TRUE, status |-> 0,
     ignores_term |-> FALSE, forks |-> "none"]

WriterPrograms ==
    { [kind |-> "writer", writes |-> w, exits |-> e, status |-> st,
       ignores_term |-> ig, forks |-> fk] :
        w \in Scripts, e \in BOOLEAN, st \in ExitCodes, ig \in BOOLEAN,
        fk \in {"none", "obeys", "ignores"} }

Programs ==
    {EchoProgram} \cup {q \in WriterPrograms : q.exits \/ q.status = 0}

\* ------------------------------------------------------------------------
\* Spec: one session
\* ------------------------------------------------------------------------
Init ==
    /\ FilterIdle
    /\ pc = "init"
    /\ isatty \in BOOLEAN
    /\ timeout_s \in Timeouts
    /\ strip_ansi \in BOOLEAN
    /\ program \in Programs
    /\ child = "none"
    /\ child_status = None
    /\ child_reading = FALSE
    /\ to_write = <<>>
    /\ desc = "none"
    /\ master_open = FALSE
    /\ slave_open = FALSE
    /\ stdin_fd = FALSE
    /\ raw_mode = FALSE
    /\ old_tty_attrs = None
    /\ term_attrs = "cooked"
    /\ stdin_buf \in {<<>>, HelloLine}
    /\ pty_in = <<>>
    /\ pty_out = <<>>
    /\ stdout_buf = <<>>
    /\ stripper = NewStripper
    /\ ready = {}
    /\ now = 0
    /\ start = 0
    /\ outcome = "none"
    /\ rc = None
    /\ timed_out = FALSE
    /\ sent = <<>>
    /\ written = <<>>
    /\ drain_err = FALSE
    /\ winch = "none"

\* Some process still holds the subordinate endpoint open.
SlaveHeld == slave_open \/ child = "running" \/ desc = "alive"

\* Leaving the function by an exception raised inside the try statement.
RaiseInTry ==
    /\ outcome' = "raised"
    /\ pc' = "finally"

\* pty.openpty() (line 151) and the best-effort window size (153-158).
OpenPty ==
    /\ pc = "init"
    /\ \E ok \in BOOLEAN :
        IF ok
        THEN /\ master_open' = TRUE
             /\ slave_open' = TRUE
             /\ pc' = "spawn"
             /\ UNCHANGED outcome
        ELSE /\ outcome' = "raised"
             /\ pc' = "done"
             /\ UNCHANGED <<master_open, slave_open>>
    /\ UNCHANGED <<fvars, isatty, timeout_s, strip_ansi, program, child, child_status,
                   child_reading, to_write, desc, stdin_fd, raw_mode, old_tty_attrs,
                   term_attrs, stdin_buf, pty_in, pty_out, stdout_buf, stripper,
                   ready, now, start, rc,
                   timed_out, sent, written, drain_err, winch>>

\* subprocess.Popen(...) and os.close(slave_fd) (lines 160-171). Popen is
\* outside every try statement: when it raises, nothing is closed.
Spawn ==
    /\ pc = "spawn"
    /\ \E ok \in BOOLEAN :
        IF ok
        THEN /\ child' = "running"
             /\ child_reading' = (program.kind = "echo")
             /\ to_write' = program.writes
             /\ desc' = IF program.forks = "none" THEN "none" ELSE "alive"
             /\ slave_open' = FALSE
             /\ pc' = "setup"
             /\ UNCHANGED outcome
        ELSE /\ outcome' = "raised"
             /\ pc' = "done"
             /\ UNCHANGED <<child, child_reading, to_write, desc, slave_open>>
    /\ UNCHANGED <<fvars, isatty, timeout_s, strip_ansi, program, child_status,
                   master_open, stdin_fd, raw_mode, old_tty_attrs, term_attrs,
                   stdin_buf, pty_in, pty_out, stdout_buf, stripper, ready, now,
                   start, rc,
                   timed_out, sent, written, drain_err, winch>>

\* Lines 173-200: save the terminal mode and enter raw mode when stdin is a
\* terminal, set the SIGWINCH handler, create the stripper, read the start
\* time. got: tcgetattr succeeds; raw: tty.setraw succeeds (a failing
\* tcsetattr changes nothing); reg: signal.signal succeeds.
TtySetup ==
    /\ pc = "setup"
    /\ \E got \in BOOLEAN, raw \in BOOLEAN, reg \in BOOLEAN :
        IF isatty
        THEN /\ old_tty_attrs' = IF got THEN Some(term_attrs) ELSE None
             /\ raw_mode' = (got /\ raw)
             /\ term_attrs' = IF got /\ raw THEN "raw" ELSE term_attrs
             /\ stdin_fd' = (got /\ raw)
             /\ winch' = IF reg THEN "armed" ELSE "none"
        ELSE /\ got /\ raw /\ reg
             /\ UNCHANGED <<old_tty_attrs, raw_mode, term_attrs, stdin_fd, winch>>
    /\ stripper' = NewStripper
    /\ start' = now
    /\ pc' = "loop"
    /\ UNCHANGED <<fvars, isatty, timeout_s, strip_ansi, program, child, child_status,
                   child_reading, to_write, desc, master_open, slave_open, stdin_buf,
                   pty_in, pty_out, stdout_buf, ready, now, outcome, rc,
                   timed_out, sent, written, drain_err>>

\* _kill_process_group(p, sig): the processes of the group after the signal.
\* getpgid fails, and nothing is sent, once the child has been reaped.
KillProcessGroup(sig) ==
    IF child \in {"none", "reaped"}
    THEN [child |-> child, child_status |-> child_status, desc |-> desc,
          sent |-> sent]
    ELSE [child |-> IF child = "running" /\ (sig = SIGKILL \/ ~program.ignores_term)
                    THEN "zombie" ELSE child,
          child_status |-> IF child = "running" /\ (sig = SIGKILL \/ ~program.ignores_term)
                           THEN Some(0 - sig) ELSE child_status,
          desc |-> IF desc = "alive" /\ (sig = SIGKILL \/ program.forks = "obeys")
                   THEN "dead" ELSE desc,
          sent |-> Append(sent, sig)]

\* A relay whose first signal on the timeout branch is SIGKILL.
CheckTimeoutKillsFirst ==
    /\ pc = "loop"
    /\ IF timeout_s # None /\ (now - start) > Val(timeout_s)
       THEN LET k == KillProcessGroup(SIGKILL)
            IN  /\ timed_out' = TRUE
                /\ child' = k.child
                /\ child_status' = k.child_status
                /\ desc' = k.desc
                /\ sent' = k.sent
                /\ pc' = "grace"
       ELSE /\ pc' = "select"
            /\ UNCHANGED <<timed_out, child, child_status, desc, sent>>
    /\ UNCHANGED <<fvars, isatty, timeout_s, strip_ansi, program, child_reading,
                   to_write, master_open, slave_open, stdin_fd, raw_mode,
                   old_tty_attrs, term_attrs, stdin_buf, pty_in, pty_out, stdout_buf,
                   stripper, ready, now, start, outcome, rc, written, drain_err,
                   winch>>

\* Line 202-203: the timeout check at the top of the loop and, when the
\* timeout has elapsed, SIGTERM to the process group.
CheckTimeout ==
    /\ pc = "loop"
    /\ IF timeout_s # None /\ (now - start) > Val(timeout_s)
       THEN LET k == KillProcessGroup(SIGTERM)
            IN  /\ timed_out' = TRUE
                /\ child' = k.child
                /\ child_status' = k.child_status
                /\ desc' = k.desc
                /\ sent' = k.sent
                /\ pc' = "grace"
       ELSE /\ pc' = "select"
            /\ UNCHANGED <<timed_out, child, child_status, desc, sent>>
    /\ UNCHANGED <<fvars, isatty, timeout_s, strip_ansi, program, child_reading,
                   to_write, master_open, slave_open, stdin_fd, raw_mode,
                   old_tty_attrs, term_attrs, stdin_buf, pty_in, pty_out, stdout_buf,
                   stripper, ready, now, start, outcome, rc, written, drain_err,
                   winch>>

\* A relay that returns the killed child's status on the timeout branch.
GraceWaitReturnsStatus ==
    /\ pc = "grace"
    /\ IF child = "zombie"
       THEN /\ child' = "reaped"
            /\ rc' = child_status
            /\ UNCHANGED <<child_status, desc, now, sent>>
       ELSE LET k == KillProcessGroup(SIGKILL)
            IN  /\ now' = now + GraceTicks
                /\ child' = k.child
                /\ child_status' = k.child_status
                /\ desc' = k.desc
                /\ sent' = k.sent
                /\ rc' = k.child_status
    /\ outcome' = "returned"
    /\ pc' = "finally"
    /\ UNCHANGED <<fvars, isatty, timeout_s, strip_ansi, program, child_reading,
                   to_write, master_open, slave_open, stdin_fd, raw_mode,
                   old_tty_attrs, term_attrs, stdin_buf, pty_in, pty_out, stdout_buf,
                   stripper, ready, start, timed_out, written, drain_err, winch>>

\* Lines 204-208: p.wait(timeout=2); SIGKILL to the group when the child has
\* not exited within the grace period; return 124.
GraceWait ==
    /\ pc = "grace"
    /\ IF child = "zombie"
       THEN /\ child' = "reaped"
            /\ UNCHANGED <<child_status, desc, now, sent>>
       ELSE LET k == KillProcessGroup(SIGKILL)
            IN  /\ now' = now + GraceTicks
                /\ child' = k.child
                /\ child_status' = k.child_status
                /\ desc' = k.desc
                /\ sent' = k.sent
    /\ rc' = Some(TimeoutCode)
    /\ outcome' = "returned"
    /\ pc' = "finally"
    /\ UNCHANGED <<fvars, isatty, timeout_s, strip_ansi, program, child_reading,
                   to_write, master_open, slave_open, stdin_fd, raw_mode,
                   old_tty_attrs, term_attrs, stdin_buf, pty_in, pty_out, stdout_buf,
                   stripper, ready, start, timed_out, written, drain_err, winch>>

\* Lines 210-214: select on master_fd and, when stdin_fd is not None, on
\* stdin_fd, for at most one poll interval. The controller is readable when
\* it has data or when nobody holds the subordinate any more (hang-up).
\* The clock is read only when a timeout is configured; it stands still
\* otherwise. waited: a poll interval has gone by when select returns.
ReadySet ==
    (IF pty_out # <<>> \/ ~SlaveHeld THEN {"master"} ELSE {})
    \cup (IF stdin_fd /\ stdin_buf # <<>> THEN {"stdin"} ELSE {})

SelectStep(waited) ==
    /\ pc = "select"
    /\ ReadySet = {} => waited
    /\ ready' = ReadySet
    /\ now' = IF waited /\ timeout_s # None THEN now + PollTicks ELSE now
    /\ pc' = "master"
    /\ UNCHANGED <<fvars, isatty, timeout_s, strip_ansi, program, child, child_status,
                   child_reading, to_write, desc, master_open, slave_open, stdin_fd,
                   raw_mode, old_tty_attrs, term_attrs, stdin_buf, pty_in, pty_out,
                   stdout_buf, stripper, start, outcome, rc,
                   timed_out, sent, written, drain_err, winch>>

Select == \E waited \in BOOLEAN : SelectStep(waited)

\* Lines 216-235: the controller endpoint is ready. os.read returns what the
\* child has written, or raises EIO (taken as b"") once the subordinate is
\* closed, or raises another OSError, which is re-raised. Data goes through
\* the stripper and to sys.stdout.buffer; write and flush are not guarded.
\* On empty data p.poll() decides whether the loop ends.
ReadMaster ==
    /\ pc = "master"
    /\ IF "master" \notin ready
       THEN /\ pc' = "stdin"
            /\ UNCHANGED <<pty_out, stripper, stdout_buf, child, outcome>>
       ELSE \/ /\ RaiseInTry
               /\ UNCHANGED <<pty_out, stripper, stdout_buf, child>>
            \/ /\ pty_out # <<>>
               /\ LET r == feed(stripper, pty_out)
                      data == IF strip_ansi THEN r.out ELSE pty_out
                  IN  /\ pty_out' = <<>>
                      /\ stripper' = IF strip_ansi THEN r.f ELSE stripper
                      /\ IF data = <<>>
                         THEN /\ pc' = "stdin"
                              /\ UNCHANGED <<stdout_buf, outcome>>
                         ELSE \E ok \in BOOLEAN :
                                IF ok
                                THEN /\ stdout_buf' = stdout_buf \o data
                                     /\ pc' = "stdin"
                                     /\ UNCHANGED outcome
                                ELSE /\ RaiseInTry
                                     /\ UNCHANGED stdout_buf
               /\ UNCHANGED child
            \/ /\ pty_out = <<>>
               /\ IF child = "zombie"
                  THEN /\ child' = "reaped"
                       /\ pc' = "wait"
                  ELSE /\ pc' = "stdin"
                       /\ UNCHANGED child
               /\ UNCHANGED <<pty_out, stripper, stdout_buf, outcome>>
    /\ UNCHANGED <<fvars, isatty, timeout_s, strip_ansi, program, child_status,
                   child_reading, to_write, desc, master_open, slave_open, stdin_fd,
                   raw_mode, old_tty_attrs, term_attrs, stdin_buf, pty_in, ready,
                   now, start, rc,
                   timed_out, sent, written, drain_err, winch>>

\* Lines 237-247: the caller's input is ready. A failing read gives no data.
\* os.write(master_fd, in_data) accepts the first k bytes (its return value
\* is not looked at), or raises OSError, which is passed over (k = 0).
ReadStdin ==
    /\ pc = "stdin"
    /\ IF stdin_fd /\ "stdin" \in ready
       THEN \/ UNCHANGED <<stdin_buf, pty_in>>
            \/ /\ stdin_buf # <<>>
               /\ stdin_buf' = <<>>
               /\ \E k \in 0..Len(stdin_buf) :
                    pty_in' = pty_in \o SubSeq(stdin_buf, 1, k)
       ELSE UNCHANGED <<stdin_buf, pty_in>>
    /\ pc' = "poll"
    /\ UNCHANGED <<fvars, isatty, timeout_s, strip_ansi, program, child, child_status,
                   child_reading, to_write, desc, master_open, slave_open, stdin_fd,
                   raw_mode, old_tty_attrs, term_attrs, pty_out, stdout_buf, stripper,
                   ready, now, start, outcome, rc,
                   timed_out, sent, written, drain_err, winch>>

\* Line 249: p.poll() at the end of the iteration.
PollChild ==
    /\ pc = "poll"
    /\ IF child = "zombie"
       THEN /\ child' = "reaped"
            /\ pc' = "drain"
       ELSE /\ pc' = "loop"
            /\ UNCHANGED child
    /\ UNCHANGED <<fvars, isatty, timeout_s, strip_ansi, program, child_status,
                   child_reading, to_write, desc, master_open, slave_open, stdin_fd,
                   raw_mode, old_tty_attrs, term_attrs, stdin_buf, pty_in, pty_out,
                   stdout_buf, stripper, ready, now, start, outcome, rc,
                   timed_out, sent, written, drain_err, winch>>

\* A relay without the final drain: line 263 reached with nothing read.
DrainSkipsRead ==
    /\ pc = "drain"
    /\ pc' = "wait"
    /\ UNCHANGED <<fvars, isatty, timeout_s, strip_ansi, program, child, child_status,
                   child_reading, to_write, desc, master_open, slave_open, stdin_fd,
                   raw_mode, old_tty_attrs, term_attrs, stdin_buf, pty_in, pty_out,
                   stdout_buf, stripper, ready, now, start, outcome, rc, timed_out,
                   sent, written, drain_err, winch>>

\* Lines 251-263: one os.read of the drain loop, made without a select. With
\* no data and the subordinate still held by somebody the read does not
\* return. Every OSError, of the read or of the write, ends the drain.
Drain ==
    /\ pc = "drain"
    /\ \/ /\ pty_out # <<>>
          /\ LET r == feed(stripper, pty_out)
                 data == IF strip_ansi THEN r.out ELSE pty_out
             IN  /\ pty_out' = <<>>
                 /\ stripper' = IF strip_ansi THEN r.f ELSE stripper
                 /\ IF data = <<>>
                    THEN /\ pc' = "drain"
                         /\ UNCHANGED <<stdout_buf, drain_err>>
                    ELSE \E ok \in BOOLEAN :
                           IF ok
                           THEN /\ stdout_buf' = stdout_buf \o data
                                /\ pc' = "drain"
                                /\ UNCHANGED drain_err
                           ELSE /\ pc' = "wait"
                                /\ drain_err' = TRUE
                                /\ UNCHANGED stdout_buf
       \/ /\ pty_out # <<>> \/ ~SlaveHeld
          /\ pc' = "wait"
          /\ drain_err' = (pty_out # <<>>)
          /\ UNCHANGED <<pty_out, stripper, stdout_buf>>
    /\ UNCHANGED <<fvars, isatty, timeout_s, strip_ansi, program, child, child_status,
                   child_reading, to_write, desc, master_open, slave_open, stdin_fd,
                   raw_mode, old_tty_attrs, term_attrs, stdin_buf, pty_in, ready, now,
                   start, outcome, rc, timed_out, sent, written, winch>>

\* A relay that returns 0 whatever the child's status.
WaitReturnsZero ==
    /\ pc = "wait"
    /\ child \in {"zombie", "reaped"}
    /\ child' = "reaped"
    /\ rc' = Some(0)
    /\ outcome' = "returned"
    /\ pc' = "finally"
    /\ UNCHANGED <<fvars, isatty, timeout_s, strip_ansi, program, child_status,
                   child_reading, to_write, desc, master_open, slave_open, stdin_fd,
                   raw_mode, old_tty_attrs, term_attrs, stdin_buf, pty_in, pty_out,
                   stdout_buf, stripper, ready, now, start,
                   timed_out, sent, written, drain_err, winch>>

\* Line 265: return p.wait().
Wait ==
    /\ pc = "wait"
    /\ child \in {"zombie", "reaped"}
    /\ child' = "reaped"
    /\ rc' = child_status
    /\ outcome' = "returned"
    /\ pc' = "finally"
    /\ UNCHANGED <<fvars, isatty, timeout_s, strip_ansi, program, child_status,
                   child_reading, to_write, desc, master_open, slave_open, stdin_fd,
                   raw_mode, old_tty_attrs, term_attrs, stdin_buf, pty_in, pty_out,
                   stdout_buf, stripper, ready, now, start,
                   timed_out, sent, written, drain_err, winch>>

\* Lines 267-277: the finally clause. os.close(master_fd); tcsetattr of the
\* saved attributes when raw mode was entered, its failure passed over.
Finally ==
    /\ pc = "finally"
    /\ master_open' = FALSE
    /\ IF raw_mode /\ stdin_fd /\ old_tty_attrs # None
       THEN \E ok \in BOOLEAN :
              term_attrs' = IF ok THEN Val(old_tty_attrs) ELSE term_attrs
       ELSE UNCHANGED term_attrs
    /\ pc' = "done"
    /\ UNCHANGED <<fvars, isatty, timeout_s, strip_ansi, program, child, child_status,
                   child_reading, to_write, desc, slave_open, stdin_fd, raw_mode,
                   old_tty_attrs, stdin_buf, pty_in, pty_out, stdout_buf, stripper,
                   ready, now, start, outcome, rc,
                   timed_out, sent, written, drain_err, winch>>

\* A terminating signal (SIGTERM, SIGHUP) reaches the relay. No handler is
\* installed for it: the process ends at once, the finally clause does not
\* run, and the kernel closes its descriptors.
RelayKilled ==
    /\ pc \in {"setup", "loop", "grace", "select", "master", "stdin", "poll",
               "drain", "wait", "finally"}
    /\ outcome' = "killed"
    /\ pc' = "done"
    /\ master_open' = FALSE
    /\ slave_open' = FALSE
    /\ UNCHANGED <<fvars, isatty, timeout_s, strip_ansi, program, child, child_status,
                   child_reading, to_write, desc, stdin_fd, raw_mode, old_tty_attrs,
                   term_attrs, stdin_buf, pty_in, pty_out, stdout_buf, stripper,
                   ready, now, start, rc,
                   timed_out, sent, written, drain_err, winch>>

\* SIGWINCH reaches the relay process while _on_winch (lines 186-190) is its
\* handler: _set_winsz(master_fd, _get_winsz(stdin_fd)), every exception
\* passed over. The handler is set by line 193 and never reset, so it is
\* still the handler after run_with_pty has returned or raised, when
\* master_fd is closed.
Sigwinch ==
    /\ winch # "none"
    /\ outcome # "killed"
    /\ winch' = IF master_open THEN "ran" ELSE "stale"
    /\ UNCHANGED <<fvars, pc, isatty, timeout_s, strip_ansi, program, child,
                   child_status, child_reading, to_write, desc, master_open,
                   slave_open, stdin_fd, raw_mode, old_tty_attrs, term_attrs,
                   stdin_buf, pty_in, pty_out, stdout_buf, stripper, ready, now,
                   start, outcome, rc, timed_out, sent, written, drain_err>>

\* ------------------------------------------------------------------------
\* The child process and its descendant
\* ------------------------------------------------------------------------
Running == child = "running" /\ pc # "done"

\* The child makes its next write call.
ChildWrite ==
    /\ Running
    /\ ~child_reading
    /\ to_write # <<>>
    /\ pty_out' = pty_out \o Head(to_write)
    /\ written' = written \o Head(to_write)
    /\ to_write' = Tail(to_write)
    /\ UNCHANGED <<fvars, pc, isatty, timeout_s, strip_ansi, program, child,
                   child_status, child_reading, desc, master_open, slave_open,
                   stdin_fd, raw_mode, old_tty_attrs, term_attrs, stdin_buf, pty_in,
                   stdout_buf, stripper, ready, now, start, outcome, rc, timed_out,
                   sent, drain_err, winch>>

\* Index of the first newline of s, 0 when there is none.
FirstNewline(s) ==
    IF \E i \in 1..Len(s) : s[i] = 10
    THEN CHOOSE i \in 1..Len(s) : s[i] = 10 /\ \A j \in 1..(i - 1) : s[j] # 10
    ELSE 0

\* The echo program gets its line and will write "echo: <line>".
ChildReadLine ==
    /\ Running
    /\ child_reading
    /\ FirstNewline(pty_in) > 0
    /\ LET n == FirstNewline(pty_in)
       IN  /\ to_write' = << EchoPrefix \o SubSeq(pty_in, 1, n) >>
           /\ pty_in' = SubSeq(pty_in, n + 1, Len(pty_in))
    /\ child_reading' = FALSE
    /\ UNCHANGED <<fvars, pc, isatty, timeout_s, strip_ansi, program, child,
                   child_status, desc, master_open, slave_open, stdin_fd, raw_mode,
                   old_tty_attrs, term_attrs, stdin_buf, pty_out, stdout_buf,
                   stripper, ready, now, start, outcome, rc,
                   timed_out, sent, written, drain_err, winch>>

\* The child exits by itself after its last write.
ChildExit ==
    /\ Running
    /\ ~child_reading
    /\ to_write = <<>>
    /\ program.exits
    /\ child' = "zombie"
    /\ child_status' = Some(program.status)
    /\ UNCHANGED <<fvars, pc, isatty, timeout_s, strip_ansi, program, child_reading,
                   to_write, desc, master_open, slave_open, stdin_fd, raw_mode,
                   old_tty_attrs, term_attrs, stdin_buf, pty_in, pty_out, stdout_buf,
                   stripper, ready, now, start, outcome, rc,
                   timed_out, sent, written, drain_err, winch>>

\* The descendant exits by itself.
DescExit ==
    /\ desc = "alive"
    /\ pc # "done"
    /\ desc' = "dead"
    /\ UNCHANGED <<fvars, pc, isatty, timeout_s, strip_ansi, program, child,
                   child_status, child_reading, to_write, master_open, slave_open,
                   stdin_fd, raw_mode, old_tty_attrs, term_attrs, stdin_buf, pty_in,
                   pty_out, stdout_buf, stripper, ready, now, start, outcome, rc,
                   timed_out, sent, written, drain_err, winch>>

Next ==
    \/ OpenPty
    \/ Spawn
    \/ TtySetup
    \/ CheckTimeout
    \/ GraceWait
    \/ Select
    \/ ReadMaster
    \/ ReadStdin
    \/ PollChild
    \/ Drain
    \/ Wait
    \/ Finally
    \/ RelayKilled
    \/ Sigwinch
    \/ ChildWrite
    \/ ChildReadLine
    \/ ChildExit
    \/ DescExit

Spec == Init /\ [][Next]_vars

\* The relay takes its next step unless it is blocked in a read; real time
\* goes by, so a select that has waited happens again and again; a running
\* child makes its writes, reads its line and exits. The descendant may
\* live for ever, and nothing forces a signal or an I/O error.
Relay ==
    \/ OpenPty \/ Spawn \/ TtySetup \/ CheckTimeout \/ GraceWait \/ Select
    \/ ReadMaster \/ ReadStdin \/ PollChild \/ Drain \/ Wait \/ Finally

Fairness ==
    /\ WF_vars(Relay)
    /\ SF_vars(SelectStep(TRUE))
    /\ WF_vars(ChildWrite)
    /\ WF_vars(ChildReadLine)
    /\ WF_vars(ChildExit)

FairSpec == Init /\ [][Next]_vars /\ Fairness

\* ------------------------------------------------------------------------
\* Properties of the filter
\* ------------------------------------------------------------------------

\* C1: chunk-invariance. Once the whole stream has been fed chunk by chunk,
\* the concatenated outputs equal the output of one feed of the whole stream
\* to a fresh filter, and the two filters are in the same state.
C1_ChunkInvariance ==
    pos = Len(stream) =>
        /\ acc = feed(NewStripper, stream).out
        /\ flt = feed(NewStripper, stream).f

\* The split-sequence example: ESC, then "[", then the rest of the CSI
\* sequence, each call returning nothing.
C1_Witness ==
    /\ stream = <<ESC, LBRACKET, 49, 109>>
    /\ pos = 4
    /\ chunk = <<49, 109>>
    /\ pre.state = "csi"
    /\ ret = <<>>
    /\ acc = <<>>
    /\ flt = NewStripper

\* C9 as stated: whatever was fed before, a chunk without ESC is returned
\* unchanged.
C9_PlainChunkUnchangedInAnyState ==
    ~HasByte(chunk, ESC) => ret = chunk

\* C9 amended: a chunk without ESC fed to a filter that is in the text state
\* is returned unchanged and leaves the filter as it was.
C9_PlainChunkUnchangedInText ==
    (pre.state = "text" /\ ~HasByte(chunk, ESC)) => (ret = chunk /\ flt = pre)

\* A two-byte plain chunk fed after an escape sequence that has ended.
C9_Witness ==
    /\ pos = 4
    /\ Len(chunk) = 2
    /\ ~HasByte(chunk, ESC)
    /\ stream[1] = ESC
    /\ pre.state = "text"
    /\ ret = chunk

\* The bytes of data that the filter f consumes while in the text state.
RECURSIVE TextBytes(_, _)
TextBytes(f, data) ==
    IF data = <<>> THEN <<>>
    ELSE (IF f.state = "text" THEN <<Head(data)>> ELSE <<>>)
         \o TextBytes(feed(f, <<Head(data)>>).f, Tail(data))

\* C10: the bytes returned by a feed call are a subsequence of its chunk, and
\* every one of them was consumed while the filter was in the text state.
C10_OutputIsSubsequence ==
    /\ IsSubseq(ret, chunk)
    /\ IsSubseq(ret, TextBytes(pre, chunk))

\* A call that starts inside a CSI sequence, swallows its final byte and then
\* emits the text byte that follows it.
C10_Witness ==
    /\ pre.state = "csi"
    /\ chunk = <<109, BEL>>
    /\ ret = <<BEL>>
    /\ flt.state = "text"

\* Index of the first byte at or after position from that ends an OSC
\* region of s: a BEL, or a backslash whose previous byte is an ESC of the
\* region. 0 when there is none.
OscEnd(s, from) ==
    LET Ends(i) == \/ s[i] = BEL
                   \/ (s[i] = BACKSLASH /\ i > from /\ s[i - 1] = ESC)
    IN  IF \E i \in from..Len(s) : Ends(i)
        THEN CHOOSE i \in from..Len(s) : Ends(i) /\ \A j \in from..(i - 1) : ~Ends(j)
        ELSE 0

\* C11: a stream that opens an OSC region. Up to the first BEL or ESC
\* backslash of the region everything is swallowed and the filter is in the
\* osc state; from there on the filter goes on as a fresh filter would on the
\* bytes after the terminator.
C11_OscTermination ==
    (Len(stream) >= 2 /\ SubSeq(stream, 1, 2) = <<ESC, RBRACKET>> /\ pos >= 2) =>
        LET t == OscEnd(stream, 3)
            r == feed(NewStripper, SubSeq(stream, t + 1, pos))
        IN  IF t # 0 /\ pos >= t
            THEN acc = r.out /\ flt.state = r.f.state
            ELSE acc = <<>> /\ flt.state = "osc"

\* Index of the first byte at or after position from that ends a DCS region
\* of s: a backslash whose previous byte is an ESC of the region. 0 when
\* there is none.
DcsEnd(s, from) ==
    LET Ends(i) == s[i] = BACKSLASH /\ i > from /\ s[i - 1] = ESC
    IN  IF \E i \in from..Len(s) : Ends(i)
        THEN CHOOSE i \in from..Len(s) : Ends(i) /\ \A j \in from..(i - 1) : ~Ends(j)
        ELSE 0

\* C18: a stream that opens a DCS region. Up to the first ESC backslash of
\* the region everything, a BEL included, is swallowed and the filter is in
\* the dcs state; from there on the filter goes on as a fresh filter would on
\* the bytes after the terminator.
C18_DcsTermination ==
    (Len(stream) >= 2 /\ SubSeq(stream, 1, 2) = <<ESC, LETTER_P>> /\ pos >= 2) =>
        LET t == DcsEnd(stream, 3)
            r == feed(NewStripper, SubSeq(stream, t + 1, pos))
        IN  IF t # 0 /\ pos >= t
            THEN acc = r.out /\ flt.state = r.f.state
            ELSE acc = <<>> /\ flt.state = "dcs"

\* Index of the first byte of s at or after position from that lies in
\* 0x40-0x7E, 0 when there is none.
CsiEnd(s, from) ==
    LET Final(i) == s[i] >= 64 /\ s[i] <= 126
    IN  IF \E i \in from..Len(s) : Final(i)
        THEN CHOOSE i \in from..Len(s) : Final(i) /\ \A j \in from..(i - 1) : ~Final(j)
        ELSE 0

C2_TerminalRestored ==
    (pc = "done" /\ old_tty_attrs # None) => term_attrs = Val(old_tty_attrs)

\* C3 as stated: run_with_pty returns 124 if and only if the timeout branch
\* was taken.
C3_Returns124IffTimeout ==
    outcome = "returned" => (rc = Some(124) <=> timed_out)

\* C3 amended: run_with_pty returns 124 whenever the timeout branch was taken,
\* and when it was not taken it returns 124 only if the child's own exit
\* status is 124.
C3_Returns124OnTimeoutOrFromChild ==
    outcome = "returned" =>
        /\ timed_out => rc = Some(124)
        /\ (~timed_out /\ rc = Some(124)) =>
                (child_status = Some(124) /\ program.status = 124)
        /\ rc = Some(124) => (timed_out \/ child_status = Some(124))

\* A session with a timeout configured that has not elapsed, whose child
\* exits with 124 by itself.
C3_Witness ==
    /\ pc = "done"
    /\ outcome = "returned"
    /\ timeout_s # None
    /\ ~timed_out
    /\ rc = Some(124)

\* The scenario of C4: a timeout is configured, the child has been spawned,
\* ignores SIGTERM and would never exit by itself.
C4_Scenario ==
    /\ timeout_s # None
    /\ child # "none"
    /\ program.ignores_term
    /\ ~program.exits

\* C4: in that scenario, a session that ends (other than by a signal that
\* kills the relay itself) has returned 124, no later than the timeout plus
\* the grace period after its start (one poll interval of detection latency
\* granted), and no process of the child's group is alive.
C4_TimeoutReturns124AndKillsGroup ==
    (C4_Scenario /\ pc = "done" /\ outcome # "killed") =>
        /\ outcome = "returned"
        /\ rc = Some(124)
        /\ (now - start) <= Val(timeout_s) + PollTicks + GraceTicks
        /\ child # "running"
        /\ desc # "alive"

\* C5: whenever run_with_pty has returned or raised, the relay holds neither
\* endpoint of the pseudo-terminal.
C5_EndpointsReleased ==
    (pc = "done" /\ outcome \in {"returned", "raised"}) =>
        (~master_open /\ ~slave_open)

\* C6: once the child is spawned, run_with_pty never raises.
C6_LoopNeverRaises ==
    child # "none" => outcome # "raised"

\* C7: when run_with_pty returns without the timeout branch having been
\* taken, it returns the status the child ended with.
C7_ReturnsChildStatus ==
    (outcome = "returned" /\ ~timed_out) =>
        (rc = child_status /\ rc = Some(program.status))

\* A writer whose output was relayed and whose status 0 was returned.
C7_Witness ==
    /\ pc = "done"
    /\ outcome = "returned"
    /\ ~timed_out
    /\ program.kind = "writer"
    /\ stdout_buf # <<>>
    /\ rc = Some(0)

\* The scenario of C8: no timeout is configured, the echo program has been
\* spawned and the caller's input supplies "hello" and a newline.
C8_Scenario ==
    /\ timeout_s = None
    /\ program.kind = "echo"
    /\ child = "running"
    /\ stdin_buf = HelloLine

\* C8, taken for a caller's input that is a redirected pipe (the claim covers
\* a terminal and a pipe alike): in that scenario the session ends having
\* returned 0 with "echo: hello" in its output (a relay that a signal ends
\* from outside is left aside).
C8_EchoEndToEnd ==
    (C8_Scenario /\ ~isatty) ~>
        (/\ pc = "done"
         /\ \/ outcome = "killed"
            \/ /\ outcome = "returned"
               /\ rc = Some(0)
               /\ Contains(stdout_buf, EchoPrefix \o Hello))

\* C12: every read of the controller endpoint is made only after the
\* readiness wait reported it ready, so the relay is never in a read that
\* cannot return: in the drain loop there is data to read or nobody holds
\* the subordinate endpoint any more.
C12_NoBlockingRead ==
    pc = "drain" => (pty_out # <<>> \/ ~SlaveHeld)

\* C13: whenever run_with_pty returns, the child has been waited for and
\* its exit status collected, so no unreaped child remains.
C13_ChildReapedOnReturn ==
    outcome = "returned" => child = "reaped"

\* C14: signals go to the process group on the timeout branch only, SIGTERM
\* first and once the timeout has elapsed; SIGKILL follows one grace period
\* later if and only if the child has not exited by then; nothing else is
\* ever sent.
C14_EscalationOrder ==
    [][ /\ sent' # sent =>
            \/ /\ pc = "loop" /\ pc' = "grace"
               /\ timeout_s # None /\ (now - start) > Val(timeout_s)
               /\ sent = <<>> /\ sent' = <<SIGTERM>>
            \/ /\ pc = "grace" /\ pc' = "finally"
               /\ sent = <<SIGTERM>> /\ sent' = <<SIGTERM, SIGKILL>>
               /\ now' = now + GraceTicks
        /\ (pc = "loop" /\ pc' = "grace") => sent' = <<SIGTERM>>
        /\ (pc = "grace" /\ pc' = "finally") =>
              (sent' = <<SIGTERM, SIGKILL>> <=> child = "running")
      ]_vars

C14_Witness ==
    /\ pc = "done"
    /\ outcome = "returned"
    /\ timed_out
    /\ sent = <<SIGTERM, SIGKILL>>
    /\ (now - start) > Val(timeout_s) + GraceTicks

\* What the caller's output holds once everything the child has written has
\* been forwarded.
ForwardedOutput ==
    IF strip_ansi THEN feed(NewStripper, written).out ELSE written

C16_LoopEndsOnlyOnExitOrTimeout ==
    (/\ outcome # "killed"
     /\ child # "none"
     /\ pc \in {"drain", "wait", "finally", "done"})
        => (child = "reaped" \/ timed_out)

\* C17: every byte read from the caller's input is written to the
\* controller endpoint, complete and in order. With a program that never
\* reads, what has reached the pseudo-terminal followed by what is still
\* unread is the caller's input.
C17_InputByteTransparent ==
    program.kind = "writer" => (pty_in \o stdin_buf) \in {<<>>, HelloLine}

\* C20: the SIGWINCH handler is released when the session ends: once
\* run_with_pty has returned or raised, a SIGWINCH does not run the
\* session's handler on the closed controller endpoint.
C20_HandlerReleased ==
    winch # "stale"

====
